---- MODULE Spec2Model ----
(***************************************************************************)
(* A model of the WRF-Cmaq preprocessor of InMAP (src/wrfcmaq.go): the     *)
(* lazy producers (NextData closures) handed out by the accessors of       *)
(* WRFCmaq, the combinators that derive pressure, temperature, layer       *)
(* height, downwelling radiation and the land-use quantities from them,    *)
(* and the elementwise functions the combinators apply.                    *)
(*                                                                         *)
(* Time is counted in hours.  A float64 is modelled by a value record: an  *)
(* integer that fits the mantissa (op = "num"), or the term of an          *)
(* operation whose result is not such an integer.  Additions and           *)
(* subtractions round to nearest, ties to even, as IEEE-754 does.          *)
(***************************************************************************)
EXTENDS Integers, Sequences, FiniteSets, TLC

\* ------------------------------------------------------------------ bounds
\* Dates handed to NewWRFCmaq are days 0..MaxDay.
MaxDay == 1
\* At most MaxChains producer chains are constructed by accessor calls.
MaxChains == 2
\* At most MaxPulls pulls are made in one behaviour.
MaxPulls == 2
\* Bits of mantissa of the modelled floating-point numbers (53 in float64).
MantissaBits == 16

\* ------------------------------------------------------- float64 arithmetic
RECURSIVE Pow2(_)
Pow2(n) == IF n = 0 THEN 1 ELSE 2 * Pow2(n - 1)

Abs(x) == IF x < 0 THEN -x ELSE x

\* The largest excess of binary digits a sum or difference of the model has.
MaxExcess == 8

\* Round an exact integer result to MantissaBits significant bits, to
\* nearest, ties to even.
Round(x) ==
  LET a == Abs(x)
  IN IF a < Pow2(MantissaBits) THEN x
     ELSE LET e    == CHOOSE e \in 1..MaxExcess :
                         /\ Pow2(MantissaBits + e - 1) <= a
                         /\ a < Pow2(MantissaBits + e)
              q    == a \div Pow2(e)
              r    == a % Pow2(e)
              half == Pow2(e - 1)
              m    == IF r > half \/ (r = half /\ q % 2 = 1) THEN q + 1 ELSE q
          IN (IF x < 0 THEN -1 ELSE 1) * m * Pow2(e)

Num(n) == [op |-> "num", v |-> n, args |-> <<>>]
Term(o, x, y) == [op |-> o, v |-> 0, args |-> <<x, y>>]
IsNum(x) == x.op = "num"

\* x + y
FAdd(x, y) == IF IsNum(x) /\ IsNum(y) THEN Num(Round(x.v + y.v))
              ELSE Term("add", x, y)
\* x - y
FSub(x, y) == IF IsNum(x) /\ IsNum(y) THEN Num(Round(x.v - y.v))
              ELSE Term("sub", x, y)
\* x * y: exact when one factor is 1
FMul(x, y) == IF y = Num(1) THEN x
              ELSE IF x = Num(1) THEN y
              ELSE IF IsNum(x) /\ IsNum(y) /\ (x.v = 0 \/ y.v = 0) THEN Num(0)
              ELSE Term("mul", x, y)
\* x / y for y # 0: exact when the quotient is an integer
FDiv(x, y) == IF IsNum(x) /\ IsNum(y) /\ x.v % Abs(y.v) = 0
              THEN Num((IF y.v < 0 THEN -1 ELSE 1) * (x.v \div Abs(y.v)))
              ELSE Term("div", x, y)
\* math.Pow(x, y): Pow(1, y) = 1 for any y
FPow(x, y) == IF x = Num(1) THEN Num(1) ELSE Term("pow", x, y)

\* f2i: float64 to int, on the integer-valued numbers of the model
f2i(x) == x.v

\* ------------------------------------------------------- sparse.DenseArray
RECURSIVE Prod(_)
Prod(s) == IF s = <<>> THEN 1 ELSE Head(s) * Prod(Tail(s))

\* sparse.ZerosDense(dims...)
ZerosDense(shape) ==
  [Shape |-> shape, Elements |-> [i \in 1..Prod(shape) |-> Num(0)]]

NilGrid == [Shape |-> <<>>, Elements |-> <<>>]

\* checkIndex: as many indices as dimensions, each within its dimension
IndexOK(A, idx) ==
  /\ Len(idx) = Len(A.Shape)
  /\ \A d \in 1..Len(idx) : idx[d] >= 0 /\ idx[d] < A.Shape[d]

RECURSIVE Index1dFrom(_, _, _)
Index1dFrom(shape, idx, d) ==
  IF d > Len(idx) THEN 0
  ELSE idx[d] * Prod(SubSeq(shape, d + 1, Len(shape)))
       + Index1dFrom(shape, idx, d + 1)

\* DenseArray.Index1d (row major, indices from 0)
Index1d(A, idx) == Index1dFrom(A.Shape, idx, 1)

\* DenseArray.Get, for an index that passes checkIndex
Get(A, idx) == A.Elements[Index1d(A, idx) + 1]

\* The index of the n-th element (n from 0) of an array of the given shape.
RECURSIVE IndexOf(_, _)
IndexOf(shape, n) ==
  IF shape = <<>> THEN <<>>
  ELSE LET rest == Prod(Tail(shape))
       IN <<n \div rest>> \o IndexOf(Tail(shape), n % rest)

\* ------------------------------------------------------ outcomes of a pull
\* (grid, nil), (nil, err), or a run-time panic after `computed` output cells
Ok(g) == [kind |-> "grid", grid |-> g, err |-> "nil", computed |-> Len(g.Elements)]
Fail(e) == [kind |-> "err", grid |-> NilGrid, err |-> e, computed |-> 0]
Panic(m, n) == [kind |-> "panic", grid |-> NilGrid, err |-> m, computed |-> n]

\* The first iteration (from 0) of a loop of len iterations that panics, bad
\* being the iterations that would; len when there is none.
FirstBad(len, bad) ==
  IF bad = {} THEN len ELSE CHOOSE n \in bad : \A m \in bad : n <= m

\* ------------------------------------------------------------- temperature
po == 101300
\* kappa = 0.2854, in units of 1e-4
kappa == 2854

\* thetaPerturbToTemperature with the reference pressure 1000 hPa.
thetaPerturbToTemperature1000hPa(thetaPerturb, p) ==
  LET pressureCorrection == FPow(FDiv(p, Num(100000)), Num(kappa))
      theta == FAdd(thetaPerturb, Num(300))
  IN FMul(theta, pressureCorrection)

thetaPerturbToTemperature(thetaPerturb, p) ==
  LET pressureCorrection == FPow(FDiv(p, Num(po)), Num(kappa))
      theta == FAdd(thetaPerturb, Num(300))
  IN FMul(theta, pressureCorrection)

\* The body of cmaqTemperatureConvert's closure after both pulls succeeded.
TemperatureBody(thetaPerturb, p) ==
  LET n == Len(thetaPerturb.Elements)
  IN IF Len(p.Elements) < n
     THEN Panic("index out of range", Len(p.Elements))
     ELSE Ok([Shape |-> thetaPerturb.Shape,
              Elements |-> [i \in 1..n |->
                 thetaPerturbToTemperature(thetaPerturb.Elements[i], p.Elements[i])]])

\* ---------------------------------------------------- pressure, radiation
\* A.AddDense(B) on a copy of A: the arrays must have the same shape
AddDense(A, B) ==
  IF A.Shape # B.Shape THEN Panic("arrays must be the same shape", 0)
  ELSE Ok([Shape |-> A.Shape,
           Elements |-> [i \in 1..Len(A.Elements) |->
                           FAdd(A.Elements[i], B.Elements[i])]])

\* The body of cmaqPressureConvert's closure: P := pb.Copy(); P.AddDense(p)
PressureBody(pb, p) == AddDense(pb, p)

\* The body of cmaqRadiationDown's closure: rad := swDown.Copy(); rad.AddDense(glw)
RadiationBody(swDown, glw) == AddDense(swDown, glw)

\* ------------------------------------------------------------ layer height
\* g = 9.80665 m/s2, in units of 1e-5
g == 980665

HeightCell(ph, phb, k, j, i) ==
  FDiv(FSub(FSub(FAdd(Get(ph, <<k, j, i>>), Get(phb, <<k, j, i>>)),
                 Get(ph, <<0, j, i>>)),
            Get(phb, <<0, j, i>>)),
       Num(g))

geopotentialToHeight(ph, phb) ==
  LET n == Len(ph.Elements)
  IN IF Len(ph.Shape) < 3 THEN Panic("index out of range", 0)
     ELSE IF Len(ph.Shape) > 3 THEN Panic("number of indices", 0)
     ELSE LET bad == {c \in 0..(n - 1) : ~IndexOK(phb, IndexOf(ph.Shape, c))}
              stop == FirstBad(n, bad)
          IN IF stop < n THEN Panic("index out of bounds", stop)
             ELSE Ok([Shape |-> ph.Shape,
                      Elements |-> [c \in 1..n |->
                         LET x == IndexOf(ph.Shape, c - 1)
                         IN HeightCell(ph, phb, x[1], x[2], x[3])]])

\* ---------------------------------------------------------------- land use
NLCDseinfeld == <<
  "Evergreen", "Deciduous", "Evergreen", "Deciduous", "Deciduous",
  "Shrubs", "Shrubs", "Shrubs", "Grass", "Grass",
  "Grass", "Grass", "Desert", "Grass", "Desert",
  "Desert", "Desert", "Desert", "Desert", "Desert",
  "Desert", "Desert", "Desert", "Desert", "Desert",
  "Desert", "Desert", "Deciduous", "Evergreen", "Deciduous",
  "Shrubs", "Shrubs", "Grass", "Grass", "Desert",
  "Desert", "Grass", "Grass", "Deciduous", "Grass" >>

NLCDwesely == <<
  "Coniferous", "Deciduous", "Coniferous", "Deciduous", "MixedForest",
  "RockyShrubs", "RockyShrubs", "RockyShrubs", "Range", "Range",
  "Wetland", "RangeAg", "Urban", "RangeAg", "Barren",
  "Barren", "Water", "Barren", "Barren", "Barren",
  "Water", "Barren", "Urban", "Urban", "Urban",
  "Urban", "Barren", "Deciduous", "Coniferous", "MixedForest",
  "RockyShrubs", "RockyShrubs", "Range", "Range", "Barren",
  "Barren", "RangeAg", "RangeAg", "Wetland", "Wetland" >>

\* Roughness lengths [m] in units of 1e-4
NLCDz0 == <<
  5000, 5000, 5000, 5000, 3500, 300, 350, 300, 1500, 1100,
  3000, 1000, 5000, 950, 10, 100, 1, 9990000, 9990000, 9990000,
  1, 10, 5000, 7000, 15000, 20000, 100, 5000, 5000, 3500,
  250, 300, 1100, 2000, 100, 100, 1000, 600, 4000, 2000 >>

\* float64(category) of a land-use category of seinfeld or wesely1989
Category(c) == [op |-> c, v |-> 0, args |-> <<>>]
\* a roughness length of NLCDz0
Length(z) == [op |-> "1e-4", v |-> z, args |-> <<>>]

\* table[f2i(lu) - 1], a slice index that Go checks
InTable(table, lu) == f2i(lu) - 1 >= 0 /\ f2i(lu) - 1 < Len(table)
\* Lookup taking the code for an index from 0.
LookupFromZero(table, lu) ==
  table[IF f2i(lu) < Len(table) THEN f2i(lu) + 1 ELSE Len(table)]
Lookup(table, lu) == table[(f2i(lu) - 1) + 1]

\* The loop over (j, i) of cmaqSeinfeldLandUse and cmaqWeselyLandUse.
LandUse2D(table, lu) ==
  LET n == Len(lu.Elements)
  IN IF Len(lu.Shape) < 2 THEN Panic("index out of range", 0)
     ELSE IF Len(lu.Shape) > 2 THEN Panic("number of indices", 0)
     ELSE LET bad == {c \in 0..(n - 1) : ~InTable(table, lu.Elements[c + 1])}
              stop == FirstBad(n, bad)
          IN IF stop < n THEN Panic("index out of range", stop)
             ELSE Ok([Shape |-> lu.Shape,
                      Elements |-> [c \in 1..n |->
                         Category(Lookup(table, lu.Elements[c]))]])

\* The body of cmaqSeinfeldLandUse's closure after the pull succeeded.
SeinfeldBody(lu) == LandUse2D(NLCDseinfeld, lu)

\* The body of cmaqWeselyLandUse's closure after the pull succeeded.
WeselyBody(lu) == LandUse2D(NLCDwesely, lu)

\* The body of cmaqZ0's closure after the pull succeeded.
Z0Body(luIndex) ==
  LET n == Len(luIndex.Elements)
      bad == {c \in 0..(n - 1) : ~InTable(NLCDz0, luIndex.Elements[c + 1])}
      stop == FirstBad(n, bad)
  IN IF stop < n THEN Panic("index out of range", stop)
     ELSE Ok([Shape |-> luIndex.Shape,
              Elements |-> [c \in 1..n |->
                 Length(Lookup(NLCDz0, luIndex.Elements[c]))]])

\* ------------------------------------------------------------ configuration
VARIABLES
  dates,   \* the start and end date strings given to NewWRFCmaq
  w,       \* the *WRFCmaq (or the error) NewWRFCmaq returned
  heap,    \* the cursors captured by the closures of nextDataNCF and nextDataGroupNCF
  chains,  \* the NextData values the accessors have returned so far, each with
           \* the number of times the consumer has called it
  last,    \* the last pull: its chain, the upstream pulls it made, its outcome
  npulls,  \* pulls made so far
  calc     \* an elementwise function applied to given grids, and its outcome

vars == <<dates, w, heap, chains, last, npulls, calc>>

\* A date string is modelled by its day; a negative one does not parse.
DateStrings == -1..MaxDay

\* time.Parse(inDateFormat, s): midnight of the day, in hours
ParseDate(s) == s * 24

\* NewWRFCmaq adding a day to the end, to include the last day.
NewWRFCmaqEndNextDay(startDate, endDate) ==
  IF startDate < 0
  THEN [err |-> "start time", start |-> 0, end |-> 0, recordDelta |-> 0, fileDelta |-> 0]
  ELSE IF endDate < 0
  THEN [err |-> "end time", start |-> 0, end |-> 0, recordDelta |-> 0, fileDelta |-> 0]
  ELSE [err |-> "nil", start |-> ParseDate(startDate), end |-> ParseDate(endDate) + 24,
        recordDelta |-> 1, fileDelta |-> 24]

NewWRFCmaq(startDate, endDate) ==
  IF startDate < 0
  THEN [err |-> "start time", start |-> 0, end |-> 0, recordDelta |-> 0, fileDelta |-> 0]
  ELSE IF endDate < 0
  THEN [err |-> "end time", start |-> 0, end |-> 0, recordDelta |-> 0, fileDelta |-> 0]
  ELSE [err |-> "nil", start |-> ParseDate(startDate), end |-> ParseDate(endDate),
        recordDelta |-> 1, fileDelta |-> 24]

\* ------------------------------------------------------------ raw producers
\* The cursor of a closure returned by nextDataNCF: it reads varName at
\* start, start + recordDelta, ... while the time is before end.  pulls and
\* fails count the calls of the closure and those that returned no grid.
nextDataNCF(varName, start, end, recordDelta_, fileDelta_) ==
  [fn |-> "nextDataNCF", var |-> varName, weight |-> 1,
   now |-> start, end |-> end, delta |-> recordDelta_, pulls |-> 0, fails |-> 0]

\* nextDataGroupNCF for a group of one variable with its weight
nextDataGroupNCF(varName, weight, start, end, recordDelta_, fileDelta_) ==
  [fn |-> "nextDataGroupNCF", var |-> varName, weight |-> weight,
   now |-> start, end |-> end, delta |-> recordDelta_, pulls |-> 0, fails |-> 0]

Scale(grid, weight) ==
  [Shape |-> grid.Shape,
   Elements |-> [i \in 1..Len(grid.Elements) |-> FMul(grid.Elements[i], Num(weight))]]

\* One call of a raw closure whose reader answers `read`.
CursorPull(c, read) ==
  IF ~(c.now < c.end)
  THEN [c |-> [c EXCEPT !.pulls = @ + 1, !.fails = @ + 1], out |-> Fail("EOF")]
  ELSE [c |-> [c EXCEPT !.now = @ + c.delta, !.pulls = @ + 1,
                        !.fails = @ + (IF read.kind = "grid" THEN 0 ELSE 1)],
        out |-> IF read.kind = "grid" /\ c.fn = "nextDataGroupNCF"
                THEN Ok(Scale(read.grid, c.weight)) ELSE read]

\* ----------------------------------------------------------------- closures
RawRef(id) == [fn |-> "raw", id |-> id, args |-> <<>>]
Closure(name, upstream) == [fn |-> name, id |-> 0, args |-> upstream]

\* What a pull returns to the model: the heap after it, its outcome, and the
\* raw closures it called, in order, each with what it returned.
Return(h, out, tr) == [h |-> h, out |-> out, tr |-> tr]

\* An error return that wraps the upstream error in a message of its own.
ReturnErrWrapped(out) == IF out.kind = "panic" THEN out ELSE Fail("inmap: read failed")

\* `return nil, err`; a panic of an upstream closure unwinds through the caller
ReturnErr(out) == IF out.kind = "panic" THEN out ELSE Fail(out.err)

RECURSIVE Pull(_, _, _)

RawPull(f, h, rd) ==
  LET r == CursorPull(h[f.id], rd[f.id])
  IN Return([h EXCEPT ![f.id] = r.c], r.out,
            << [id |-> f.id, var |-> h[f.id].var, out |-> r.out] >>)

\* The closure of Height calling phbFunc whether or not phFunc returned a grid.
HeightPullBoth(f, h, rd) ==
  LET phFunc == f.args[1]
      phbFunc == f.args[2]
      r1 == Pull(phFunc, h, rd)
      r2 == Pull(phbFunc, r1.h, rd)
  IN IF r1.out.kind # "grid" THEN Return(r2.h, ReturnErr(r1.out), r1.tr \o r2.tr)
     ELSE IF r2.out.kind # "grid"
     THEN Return(r2.h, ReturnErr(r2.out), r1.tr \o r2.tr)
     ELSE Return(r2.h, geopotentialToHeight(r1.out.grid, r2.out.grid),
                 r1.tr \o r2.tr)

\* The closure Height returns.
HeightPull(f, h, rd) ==
  LET phFunc == f.args[1]
      phbFunc == f.args[2]
      r1 == Pull(phFunc, h, rd)
  IN IF r1.out.kind # "grid" THEN Return(r1.h, ReturnErr(r1.out), r1.tr)
     ELSE LET r2 == Pull(phbFunc, r1.h, rd)
          IN IF r2.out.kind # "grid"
             THEN Return(r2.h, ReturnErr(r2.out), r1.tr \o r2.tr)
             ELSE Return(r2.h, geopotentialToHeight(r1.out.grid, r2.out.grid),
                         r1.tr \o r2.tr)

\* The closure cmaqTemperatureConvert(thetaFunc, pFunc) returns.
cmaqTemperatureConvertPull(f, h, rd) ==
  LET thetaFunc == f.args[1]
      pFunc == f.args[2]
      r1 == Pull(thetaFunc, h, rd)
  IN IF r1.out.kind # "grid" THEN Return(r1.h, ReturnErr(r1.out), r1.tr)
     ELSE LET r2 == Pull(pFunc, r1.h, rd)
          IN IF r2.out.kind # "grid"
             THEN Return(r2.h, ReturnErr(r2.out), r1.tr \o r2.tr)
             ELSE Return(r2.h, TemperatureBody(r1.out.grid, r2.out.grid),
                         r1.tr \o r2.tr)

\* The closure cmaqPressureConvert(pFunc, pbFunc) returns: pbFunc is called first.
cmaqPressureConvertPull(f, h, rd) ==
  LET pFunc == f.args[1]
      pbFunc == f.args[2]
      r1 == Pull(pbFunc, h, rd)
  IN IF r1.out.kind # "grid" THEN Return(r1.h, ReturnErr(r1.out), r1.tr)
     ELSE LET r2 == Pull(pFunc, r1.h, rd)
          IN IF r2.out.kind # "grid"
             THEN Return(r2.h, ReturnErr(r2.out), r1.tr \o r2.tr)
             ELSE Return(r2.h, PressureBody(r1.out.grid, r2.out.grid),
                         r1.tr \o r2.tr)

\* The closure of cmaqRadiationDown calling glwFunc first.
cmaqRadiationDownPullGlwFirst(f, h, rd) ==
  LET swDownFunc == f.args[1]
      glwFunc == f.args[2]
      r1 == Pull(glwFunc, h, rd)
  IN IF r1.out.kind # "grid" THEN Return(r1.h, ReturnErr(r1.out), r1.tr)
     ELSE LET r2 == Pull(swDownFunc, r1.h, rd)
          IN IF r2.out.kind # "grid"
             THEN Return(r2.h, ReturnErr(r2.out), r1.tr \o r2.tr)
             ELSE Return(r2.h, RadiationBody(r2.out.grid, r1.out.grid),
                         r1.tr \o r2.tr)

\* The closure cmaqRadiationDown(swDownFunc, glwFunc) returns.
cmaqRadiationDownPull(f, h, rd) ==
  LET swDownFunc == f.args[1]
      glwFunc == f.args[2]
      r1 == Pull(swDownFunc, h, rd)
  IN IF r1.out.kind # "grid" THEN Return(r1.h, ReturnErr(r1.out), r1.tr)
     ELSE LET r2 == Pull(glwFunc, r1.h, rd)
          IN IF r2.out.kind # "grid"
             THEN Return(r2.h, ReturnErr(r2.out), r1.tr \o r2.tr)
             ELSE Return(r2.h, RadiationBody(r1.out.grid, r2.out.grid),
                         r1.tr \o r2.tr)

\* The closure cmaqSeinfeldLandUse(luFunc) returns.
cmaqSeinfeldLandUsePull(f, h, rd) ==
  LET r1 == Pull(f.args[1], h, rd)
  IN IF r1.out.kind # "grid" THEN Return(r1.h, ReturnErr(r1.out), r1.tr)
     ELSE Return(r1.h, SeinfeldBody(r1.out.grid), r1.tr)

\* The closure cmaqWeselyLandUse(luFunc) returns.
cmaqWeselyLandUsePull(f, h, rd) ==
  LET r1 == Pull(f.args[1], h, rd)
  IN IF r1.out.kind # "grid" THEN Return(r1.h, ReturnErr(r1.out), r1.tr)
     ELSE Return(r1.h, WeselyBody(r1.out.grid), r1.tr)

\* The closure cmaqZ0(LUIndexFunc) returns.
cmaqZ0Pull(f, h, rd) ==
  LET r1 == Pull(f.args[1], h, rd)
  IN IF r1.out.kind # "grid" THEN Return(r1.h, ReturnErr(r1.out), r1.tr)
     ELSE Return(r1.h, Z0Body(r1.out.grid), r1.tr)

\* Calling a NextData value f on heap h, the readers answering rd.
Pull(f, h, rd) ==
  CASE f.fn = "raw" -> RawPull(f, h, rd)
    [] f.fn = "Height" -> HeightPull(f, h, rd)
    [] f.fn = "cmaqTemperatureConvert" -> cmaqTemperatureConvertPull(f, h, rd)
    [] f.fn = "cmaqPressureConvert" -> cmaqPressureConvertPull(f, h, rd)
    [] f.fn = "cmaqRadiationDown" -> cmaqRadiationDownPull(f, h, rd)
    [] f.fn = "cmaqSeinfeldLandUse" -> cmaqSeinfeldLandUsePull(f, h, rd)
    [] f.fn = "cmaqWeselyLandUse" -> cmaqWeselyLandUsePull(f, h, rd)
    [] f.fn = "cmaqZ0" -> cmaqZ0Pull(f, h, rd)

\* The raw closures under f, in the order of the parameters.
RECURSIVE Leaves(_)
Leaves(f) ==
  IF f.fn = "raw" THEN <<f.id>>
  ELSE IF Len(f.args) = 1 THEN Leaves(f.args[1])
  ELSE Leaves(f.args[1]) \o Leaves(f.args[2])

\* ---------------------------------------------------------------- accessors
\* An accessor applied to heap h gives the heap with the new cursors and the
\* NextData value.
\* read keeping one closure per variable: a second call for the same variable
\* gives the closure of the first.
readCached(h, varName) ==
  IF \E id \in 1..Len(h) : h[id].fn = "nextDataNCF" /\ h[id].var = varName
  THEN [h |-> h,
        f |-> RawRef(CHOOSE id \in 1..Len(h) :
                        h[id].fn = "nextDataNCF" /\ h[id].var = varName)]
  ELSE [h |-> Append(h, nextDataNCF(varName, w.start, w.end, w.recordDelta, w.fileDelta)),
        f |-> RawRef(Len(h) + 1)]

read(h, varName) ==
  [h |-> Append(h, nextDataNCF(varName, w.start, w.end, w.recordDelta, w.fileDelta)),
   f |-> RawRef(Len(h) + 1)]

readGroup(h, varGroup) ==
  [h |-> Append(h, nextDataGroupNCF(varGroup.name, varGroup.weight,
                                    w.start, w.end, w.recordDelta, w.fileDelta)),
   f |-> RawRef(Len(h) + 1)]

\* The accessors that are w.read(varName)
ReadAccessors ==
  [PBLH |-> "PBLH", ALT |-> "ALT", U |-> "U", V |-> "V", W |-> "W",
   SurfaceHeatFlux |-> "HFX", UStar |-> "UST", HO |-> "oh", H2O2 |-> "h2o2",
   QRain |-> "QRAIN", CloudFrac |-> "CLDFRA", QCloud |-> "QCLOUD",
   SWDown |-> "SWDOWN", GLW |-> "GLW"]

\* The accessors that are w.readGroup(group), each group one variable of weight 1
GroupAccessors ==
  [AVOC |-> "aVOC", BVOC |-> "bVOC", NOx |-> "gNO", SOx |-> "gS", NH3 |-> "gNH",
   ASOA |-> "aSOA", BSOA |-> "bSOA", PNO |-> "pNO", PS |-> "pS", PNH |-> "pNH",
   TotalPM25 |-> "TotalPM25"]

Height(h) ==
  LET phFunc == read(h, "PH")
      phbFunc == read(phFunc.h, "PHB")
  IN [h |-> phbFunc.h, f |-> Closure("Height", <<phFunc.f, phbFunc.f>>)]

cmaqPressureConvert(pFunc, pbFunc) == Closure("cmaqPressureConvert", <<pFunc, pbFunc>>)

P(h) ==
  LET pbFunc == read(h, "PB")
      pFunc == read(pbFunc.h, "P")
  IN [h |-> pFunc.h, f |-> cmaqPressureConvert(pFunc.f, pbFunc.f)]

cmaqTemperatureConvert(thetaFunc, pFunc) ==
  Closure("cmaqTemperatureConvert", <<thetaFunc, pFunc>>)

T(h) ==
  LET thetaFunc == read(h, "T")
      pFunc == P(thetaFunc.h)
  IN [h |-> pFunc.h, f |-> cmaqTemperatureConvert(thetaFunc.f, pFunc.f)]

cmaqSeinfeldLandUse(luFunc) == Closure("cmaqSeinfeldLandUse", <<luFunc>>)

SeinfeldLandUse(h) ==
  LET luFunc == read(h, "LU_INDEX")
  IN [h |-> luFunc.h, f |-> cmaqSeinfeldLandUse(luFunc.f)]

cmaqWeselyLandUse(luFunc) == Closure("cmaqWeselyLandUse", <<luFunc>>)

WeselyLandUse(h) ==
  LET luFunc == read(h, "LU_INDEX")
  IN [h |-> luFunc.h, f |-> cmaqWeselyLandUse(luFunc.f)]

cmaqZ0(LUIndexFunc) == Closure("cmaqZ0", <<LUIndexFunc>>)

Z0(h) ==
  LET LUIndexFunc == read(h, "LU_INDEX")
  IN [h |-> LUIndexFunc.h, f |-> cmaqZ0(LUIndexFunc.f)]

cmaqRadiationDown(swDownFunc, glwFunc) ==
  Closure("cmaqRadiationDown", <<swDownFunc, glwFunc>>)

RadiationDown(h) ==
  LET swDownFunc == read(h, "SWDOWN")
      glwFunc == read(swDownFunc.h, "GLW")
  IN [h |-> glwFunc.h, f |-> cmaqRadiationDown(swDownFunc.f, glwFunc.f)]

\* ------------------------------------------------------------------ readers
\* The shapes and the grids readNCF returns in the model of the producers.
ReaderShapes == {<<2>>, <<1, 2>>, <<2, 1, 2>>}

ConstGrid(shape, x) == [Shape |-> shape, Elements |-> [i \in 1..Prod(shape) |-> x]]

ReaderGrids == {ConstGrid(s, Num(1)) : s \in ReaderShapes}

\* What a read of one record gives: a grid, or one of the reader's errors.
ReadOutcomes ==
  {Ok(G) : G \in ReaderGrids} \cup {Fail("file not found"), Fail("variable not present")}

\* ------------------------------------------------------------------ actions
NoPull == [chain |-> 0, acc |-> "none", tr |-> <<>>, out |-> Fail("nil")]
NoCalc == [fn |-> "none", in |-> <<>>, out |-> Fail("nil")]

Init ==
  /\ dates \in [startDate : DateStrings, endDate : DateStrings]
  /\ w = NewWRFCmaq(dates.startDate, dates.endDate)
  /\ heap = <<>>
  /\ chains = <<>>
  /\ last = NoPull
  /\ npulls = 0
  /\ calc = NoCalc

\* An accessor call: r is what the accessor gives on the present heap.
Construct(acc, r) ==
  /\ heap' = r.h
  /\ chains' = Append(chains, [acc |-> acc, f |-> r.f, calls |-> 0])
  /\ UNCHANGED <<dates, w, last, npulls, calc>>

\* An accessor is called on a *WRFCmaq that NewWRFCmaq returned without error.
CanCall == w.err = "nil" /\ Len(chains) < MaxChains

CallRead ==
  /\ CanCall
  /\ \E acc \in DOMAIN ReadAccessors : Construct(acc, read(heap, ReadAccessors[acc]))

CallReadGroup ==
  /\ CanCall
  /\ \E acc \in DOMAIN GroupAccessors :
        Construct(acc, readGroup(heap, [name |-> GroupAccessors[acc], weight |-> 1]))

CallHeight == CanCall /\ Construct("Height", Height(heap))
CallT == CanCall /\ Construct("T", T(heap))
CallP == CanCall /\ Construct("P", P(heap))
CallSeinfeldLandUse == CanCall /\ Construct("SeinfeldLandUse", SeinfeldLandUse(heap))
CallWeselyLandUse == CanCall /\ Construct("WeselyLandUse", WeselyLandUse(heap))
CallZ0 == CanCall /\ Construct("Z0", Z0(heap))
CallRadiationDown == CanCall /\ Construct("RadiationDown", RadiationDown(heap))

LeafSet(f) == {Leaves(f)[n] : n \in 1..Len(Leaves(f))}

\* The consumer calls the NextData value of chain c once.
PullChain ==
  /\ npulls < MaxPulls
  /\ \E c \in 1..Len(chains) :
    /\ \E rd \in [LeafSet(chains[c].f) -> ReadOutcomes] :
         LET r == Pull(chains[c].f, heap, rd)
         IN /\ heap' = r.h
            /\ last' = [chain |-> c, acc |-> chains[c].acc, tr |-> r.tr, out |-> r.out]
    /\ chains' = [chains EXCEPT ![c].calls = @ + 1]
    /\ npulls' = npulls + 1
    /\ UNCHANGED <<dates, w, calc>>

Next ==
  \/ CallRead
  \/ CallReadGroup
  \/ CallHeight
  \/ CallT
  \/ CallP
  \/ CallSeinfeldLandUse
  \/ CallWeselyLandUse
  \/ CallZ0
  \/ CallRadiationDown
  \/ PullChain

Spec == Init /\ [][Next]_vars

\* ------------------------------------------- the elementwise functions alone
AllGrids(shapes, vals) ==
  UNION {{[Shape |-> s, Elements |-> e] : e \in [1..Prod(s) -> vals]} : s \in shapes}

\* Geopotentials, pressures and radiation: 0, 1 and the first power of two
\* whose successor has no float of its own.
FloatVals == {Num(0), Num(1), Num(Pow2(MantissaBits))}
HeightGrids == AllGrids({<<1, 1, 2>>, <<2, 1, 2>>}, FloatVals)
SumGrids == AllGrids({<<2>>, <<1, 2>>}, FloatVals)

ThetaGrids == AllGrids({<<1>>, <<2>>, <<1, 2>>}, {Num(0), Num(10)})
PressureGrids == AllGrids({<<1>>, <<2>>, <<1, 2>>}, {Num(50650), Num(po)})

\* Land-use codes around the 40 entries of the tables
LandUseCodes == {Num(c) : c \in (-1)..(Len(NLCDz0) + 1)}
LandUseGrids == AllGrids({<<2>>, <<1, 2>>, <<1, 1, 2>>}, LandUseCodes)

InitCalc ==
  /\ dates = [startDate |-> 0, endDate |-> 0]
  /\ w = NewWRFCmaq(dates.startDate, dates.endDate)
  /\ heap = <<>>
  /\ chains = <<>>
  /\ last = NoPull
  /\ npulls = 0
  /\ calc = NoCalc

Apply(fn, in, out) ==
  /\ calc' = [fn |-> fn, in |-> in, out |-> out]
  /\ UNCHANGED <<dates, w, heap, chains, last, npulls>>

CalcHeight ==
  /\ calc = NoCalc
  /\ \E ph \in HeightGrids, phb \in HeightGrids :
        Apply("geopotentialToHeight", <<ph, phb>>, geopotentialToHeight(ph, phb))

CalcTemperature ==
  /\ calc = NoCalc
  /\ \E thetaPerturb \in ThetaGrids, p \in PressureGrids :
        Apply("cmaqTemperatureConvert", <<thetaPerturb, p>>, TemperatureBody(thetaPerturb, p))

CalcPressure ==
  /\ calc = NoCalc
  /\ \E pb \in SumGrids, p \in SumGrids :
        Apply("cmaqPressureConvert", <<pb, p>>, PressureBody(pb, p))

CalcRadiation ==
  /\ calc = NoCalc
  /\ \E swDown \in SumGrids, glw \in SumGrids :
        Apply("cmaqRadiationDown", <<swDown, glw>>, RadiationBody(swDown, glw))

CalcSeinfeld ==
  /\ calc = NoCalc
  /\ \E lu \in LandUseGrids : Apply("cmaqSeinfeldLandUse", <<lu>>, SeinfeldBody(lu))

CalcWesely ==
  /\ calc = NoCalc
  /\ \E lu \in LandUseGrids : Apply("cmaqWeselyLandUse", <<lu>>, WeselyBody(lu))

CalcZ0 ==
  /\ calc = NoCalc
  /\ \E luIndex \in LandUseGrids : Apply("cmaqZ0", <<luIndex>>, Z0Body(luIndex))

NextCalc ==
  \/ CalcHeight
  \/ CalcTemperature
  \/ CalcPressure
  \/ CalcRadiation
  \/ CalcSeinfeld
  \/ CalcWesely
  \/ CalcZ0

SpecCalc == InitCalc /\ [][NextCalc]_vars

\* --------------------------------------- the grids of one pull, as objects
\* mem holds the *sparse.DenseArray objects alive in one call of a derived
\* closure; a reference is an object's position in mem, 0 is nil.
Alloc(mem, A) == [mem |-> Append(mem, A), ref |-> Len(mem) + 1]

\* A.Copy(): a new array with the shape and the elements of A
Copy(mem, a) == Alloc(mem, mem[a])

\* A.AddDense(B) for the arrays at a and b: the receiver holds the sum
AddDenseAt(mem, a, b) ==
  IF AddDense(mem[a], mem[b]).kind = "grid"
  THEN [mem EXCEPT ![a] = AddDense(mem[a], mem[b]).grid]
  ELSE mem

\* What a closure leaves: the memory, the reference it returned (the array a
\* copy was taken of, if any), and the outcome the caller sees.
Returned(mem, ref, copyOf, panic) ==
  [mem |-> mem,
   ref |-> IF panic.kind = "panic" THEN 0 ELSE ref,
   copyOf |-> copyOf,
   out |-> IF panic.kind = "panic" THEN panic ELSE Ok(mem[ref])]

\* o := sparse.ZerosDense(shape...), then every cell of o set in the loop
ZerosDenseFilled(mem, shape, body) ==
  Returned(IF body.kind = "grid"
           THEN [Alloc(mem, ZerosDense(shape)).mem EXCEPT ![Len(mem) + 1] = body.grid]
           ELSE Alloc(mem, ZerosDense(shape)).mem,
           Len(mem) + 1, 0, body)

\* pb.AddDense(p); return pb, nil  (no copy)
cmaqPressureConvertInPlace(mem, pb, p) ==
  Returned(AddDenseAt(mem, pb, p), pb, 0, AddDense(mem[pb], mem[p]))

\* P := pb.Copy(); P.AddDense(p); return P, nil
cmaqPressureConvertMem(mem, pb, p) ==
  LET sum == Copy(mem, pb)
  IN Returned(AddDenseAt(sum.mem, sum.ref, p), sum.ref, pb,
              AddDense(sum.mem[sum.ref], sum.mem[p]))

\* rad := swDown.Copy(); rad.AddDense(glw); return rad, nil
cmaqRadiationDownMem(mem, swDown, glw) ==
  LET rad == Copy(mem, swDown)
  IN Returned(AddDenseAt(rad.mem, rad.ref, glw), rad.ref, swDown,
              AddDense(rad.mem[rad.ref], rad.mem[glw]))

cmaqTemperatureConvertMem(mem, thetaPerturb, p) ==
  ZerosDenseFilled(mem, mem[thetaPerturb].Shape, TemperatureBody(mem[thetaPerturb], mem[p]))

geopotentialToHeightMem(mem, ph, phb) ==
  ZerosDenseFilled(mem, mem[ph].Shape, geopotentialToHeight(mem[ph], mem[phb]))

cmaqSeinfeldLandUseMem(mem, lu) ==
  ZerosDenseFilled(mem, mem[lu].Shape, SeinfeldBody(mem[lu]))

cmaqWeselyLandUseMem(mem, lu) ==
  ZerosDenseFilled(mem, mem[lu].Shape, WeselyBody(mem[lu]))

cmaqZ0Mem(mem, luIndex) ==
  ZerosDenseFilled(mem, mem[luIndex].Shape, Z0Body(mem[luIndex]))

NoCall == [fn |-> "none", in |-> <<>>, out |-> Fail("nil"),
           mem |-> <<>>, ref |-> 0, copyOf |-> 0]

InitMem ==
  /\ dates = [startDate |-> 0, endDate |-> 0]
  /\ w = NewWRFCmaq(dates.startDate, dates.endDate)
  /\ heap = <<>>
  /\ chains = <<>>
  /\ last = NoPull
  /\ npulls = 0
  /\ calc = NoCall

\* The closure fn ran on the upstream grids in, pulled in this order, and
\* left r.
Ran(fn, in, r) ==
  /\ calc' = [fn |-> fn, in |-> in, out |-> r.out,
              mem |-> r.mem, ref |-> r.ref, copyOf |-> r.copyOf]
  /\ UNCHANGED <<dates, w, heap, chains, last, npulls>>

RunHeight ==
  /\ calc = NoCall
  /\ \E ph \in HeightGrids, phb \in HeightGrids :
        Ran("Height", <<ph, phb>>, geopotentialToHeightMem(<<ph, phb>>, 1, 2))

RunTemperature ==
  /\ calc = NoCall
  /\ \E thetaPerturb \in ThetaGrids, p \in PressureGrids :
        Ran("cmaqTemperatureConvert", <<thetaPerturb, p>>,
            cmaqTemperatureConvertMem(<<thetaPerturb, p>>, 1, 2))

RunPressure ==
  /\ calc = NoCall
  /\ \E pb \in SumGrids, p \in SumGrids :
        Ran("cmaqPressureConvert", <<pb, p>>, cmaqPressureConvertMem(<<pb, p>>, 1, 2))

RunRadiation ==
  /\ calc = NoCall
  /\ \E swDown \in SumGrids, glw \in SumGrids :
        Ran("cmaqRadiationDown", <<swDown, glw>>,
            cmaqRadiationDownMem(<<swDown, glw>>, 1, 2))

RunSeinfeld ==
  /\ calc = NoCall
  /\ \E lu \in LandUseGrids :
        Ran("cmaqSeinfeldLandUse", <<lu>>, cmaqSeinfeldLandUseMem(<<lu>>, 1))

RunWesely ==
  /\ calc = NoCall
  /\ \E lu \in LandUseGrids :
        Ran("cmaqWeselyLandUse", <<lu>>, cmaqWeselyLandUseMem(<<lu>>, 1))

RunZ0 ==
  /\ calc = NoCall
  /\ \E luIndex \in LandUseGrids : Ran("cmaqZ0", <<luIndex>>, cmaqZ0Mem(<<luIndex>>, 1))

NextMem ==
  \/ RunHeight
  \/ RunTemperature
  \/ RunPressure
  \/ RunRadiation
  \/ RunSeinfeld
  \/ RunWesely
  \/ RunZ0

SpecMem == InitMem /\ [][NextMem]_vars

\* ------------------------------------------------------------------- claims
Combinators == {"Height", "P", "T", "RadiationDown"}
LandUseAccessors == {"SeinfeldLandUse", "WeselyLandUse", "Z0"}

\* The raw closures under f in the order in which a call of f calls them.
RECURSIVE PullOrder(_)
PullOrder(f) ==
  IF f.fn = "raw" THEN <<f.id>>
  ELSE IF Len(f.args) = 1 THEN PullOrder(f.args[1])
  ELSE IF f.fn = "cmaqPressureConvert"
  THEN PullOrder(f.args[2]) \o PullOrder(f.args[1])
  ELSE PullOrder(f.args[1]) \o PullOrder(f.args[2])

IsPrefix(s, t) == Len(s) <= Len(t) /\ SubSeq(t, 1, Len(s)) = s

\* The raw closures the last pull called, in order.
TraceIds == [n \in 1..Len(last.tr) |-> last.tr[n].id]

\* The last pull called every raw closure of its chain and each returned a grid.
AllUpstreamGrids ==
  /\ Len(last.tr) = Len(Leaves(chains[last.chain].f))
  /\ \A n \in 1..Len(last.tr) : last.tr[n].out.kind = "grid"

UpstreamShapes == {last.tr[n].out.grid.Shape : n \in 1..Len(last.tr)}

\* C1: when the grids a combinator (pressure, temperature, layer height,
\* downwelling radiation) pulled from its upstream producers differ in shape,
\* the pull returns a shape-mismatch error and no grid, and no output cell has
\* been computed.
C1_ShapeMismatchIsAnError ==
  (last.acc \in Combinators /\ AllUpstreamGrids /\ Cardinality(UpstreamShapes) > 1)
    => last.out = Fail("shape mismatch")

\* The lookup table of a land-use remapper.
TableOf(fn) ==
  CASE fn = "cmaqSeinfeldLandUse" -> NLCDseinfeld
    [] fn = "cmaqWeselyLandUse" -> NLCDwesely
    [] fn = "cmaqZ0" -> NLCDz0

LandUseFns == {"cmaqSeinfeldLandUse", "cmaqWeselyLandUse", "cmaqZ0"}

ValidCode(fn, x) == x.v >= 1 /\ x.v <= Len(TableOf(fn))

\* C2: when a cell of the land-use grid a remapper pulled holds a code that is
\* 0, negative or greater than the length of its table, the pull returns an
\* error value and no grid.
C2_BadCodeIsAnError ==
  (/\ calc.fn \in LandUseFns
   /\ Len(calc.in[1].Shape) = 2
   /\ \E c \in 1..Len(calc.in[1].Elements) : ~ValidCode(calc.fn, calc.in[1].Elements[c]))
    => calc.out.kind = "err"

\* C3 as claimed: after any pulls, failed ones included, the raw producers of
\* a chain have been pulled the same number of times and stand at the same
\* time.
C3_LockStepAlways ==
  \A c \in 1..Len(chains) :
    \A a \in LeafSet(chains[c].f), b \in LeafSet(chains[c].f) :
       heap[a].pulls = heap[b].pulls /\ heap[a].now = heap[b].now

\* C3: a raw producer of a chain is pulled in a pull exactly when every raw
\* producer pulled before it returned a grid; so each is ahead of the next in
\* pull order by the number of its own pulls that returned no grid, and all
\* have been pulled the same number of times when none but the last-pulled
\* ever failed.
C3_LockStepUpToFailures ==
  \A c \in 1..Len(chains) :
    LET o == PullOrder(chains[c].f)
    IN \A n \in 1..(Len(o) - 1) :
         heap[o[n]].pulls - heap[o[n + 1]].pulls = heap[o[n]].fails

\* A temperature chain whose first upstream failed once in two pulls.
C3_Witness ==
  \E c \in 1..Len(chains) :
    /\ chains[c].acc = "T"
    /\ chains[c].calls = 2
    /\ LET o == PullOrder(chains[c].f)
       IN /\ heap[o[1]].pulls = 2 /\ heap[o[1]].fails = 1
          /\ heap[o[2]].pulls = 1 /\ heap[o[3]].pulls = 1

\* C4: the chains of two accessor calls share no cursor; a chain that has not
\* been pulled stands at the configured start time whatever was pulled on the
\* others, and the cursors of a chain have been pulled only by calls of that
\* chain.
C4_FreshChains ==
  /\ \A c \in 1..Len(chains), d \in 1..Len(chains) :
        c # d => LeafSet(chains[c].f) \cap LeafSet(chains[d].f) = {}
  /\ \A c \in 1..Len(chains) :
        /\ heap[Head(PullOrder(chains[c].f))].pulls = chains[c].calls
        /\ \A id \in LeafSet(chains[c].f) :
              /\ heap[id].pulls <= chains[c].calls
              /\ heap[id].pulls = 0 => heap[id].now = w.start

\* T() pulled twice with success beside a P() that was never pulled.
C4_Witness ==
  \E c \in 1..Len(chains), d \in 1..Len(chains) :
    /\ chains[c].acc = "T" /\ chains[d].acc = "P"
    /\ chains[c].calls = 2
    /\ \A id \in LeafSet(chains[c].f) : heap[id].now = w.start + 2
    /\ \A id \in LeafSet(chains[d].f) : heap[id].now = w.start /\ heap[id].pulls = 0

DerivedAccessors == Combinators \cup LandUseAccessors

\* C5: when a pull of an upstream producer returns an error or the end of
\* the sequence, the derived pull returns that same outcome and no grid.
C5_ErrorsPropagate ==
  last.acc \in DerivedAccessors =>
    \A n \in 1..Len(last.tr) :
       last.tr[n].out.kind # "grid" => last.out = last.tr[n].out

\* A temperature pull whose baseline pressure is missing from the file.
C5_Witness ==
  /\ last.acc = "T"
  /\ Len(last.tr) = 2
  /\ last.tr[2].out = Fail("variable not present")
  /\ last.out = Fail("variable not present")

SameShape3D(A, B) == A.Shape = B.Shape /\ Len(A.Shape) = 3

\* ((PH+PHB)[k,j,i] - (PH+PHB)[0,j,i]) / g
ClaimedHeight(ph, phb, k, j, i) ==
  FDiv(FSub(FAdd(Get(ph, <<k, j, i>>), Get(phb, <<k, j, i>>)),
            FAdd(Get(ph, <<0, j, i>>), Get(phb, <<0, j, i>>))),
       Num(g))

\* C6: for same-shape 3-D grids PH and PHB the layer height at (k,j,i) is
\* ((PH+PHB)[k,j,i] - (PH+PHB)[0,j,i]) / g, a function of column (j,i) alone,
\* and it is exactly 0 at layer 0.
C6_HeightFormula ==
  (calc.fn = "geopotentialToHeight" /\ SameShape3D(calc.in[1], calc.in[2])) =>
    /\ calc.out.kind = "grid"
    /\ calc.out.grid.Shape = calc.in[1].Shape
    /\ \A c \in 1..Len(calc.in[1].Elements) :
         LET x == IndexOf(calc.in[1].Shape, c - 1)
         IN /\ calc.out.grid.Elements[c]
                 = ClaimedHeight(calc.in[1], calc.in[2], x[1], x[2], x[3])
            /\ x[1] = 0 => calc.out.grid.Elements[c] = Num(0)

\* (theta' + 300) * (p / 101300)^0.2854
ClaimedTemperature(thetaPerturb, p) ==
  FMul(FAdd(thetaPerturb, Num(300)), FPow(FDiv(p, Num(101300)), Num(2854)))

\* C7: every cell of the temperature grid is (theta' + 300) * (p / 101300)^0.2854
\* of the cells of theta' and p at the same index; theta' = 0 and p = 101300
\* give exactly 300.
C7_TemperatureFormula ==
  (calc.fn = "cmaqTemperatureConvert" /\ calc.out.kind = "grid") =>
    /\ calc.out.grid.Shape = calc.in[1].Shape
    /\ \A c \in 1..Len(calc.out.grid.Elements) :
         /\ calc.out.grid.Elements[c]
              = ClaimedTemperature(calc.in[1].Elements[c], calc.in[2].Elements[c])
         /\ (calc.in[1].Elements[c] = Num(0) /\ calc.in[2].Elements[c] = Num(101300))
              => calc.out.grid.Elements[c] = Num(300)

\* A temperature grid with one cell at the reference state and one off it.
C7_Witness ==
  /\ calc.fn = "cmaqTemperatureConvert"
  /\ calc.in[1] = [Shape |-> <<1, 2>>, Elements |-> <<Num(0), Num(10)>>]
  /\ calc.in[2] = [Shape |-> <<1, 2>>, Elements |-> <<Num(101300), Num(50650)>>]
  /\ calc.out.kind = "grid"
  /\ calc.out.grid.Elements[1] = Num(300)
  /\ calc.out.grid.Elements[2] # Num(310)

AllValid(fn, lu) == \A c \in 1..Len(lu.Elements) : ValidCode(fn, lu.Elements[c])

\* table[code - 1] as a grid value
Entry(fn, x) ==
  IF fn = "cmaqZ0" THEN Length(TableOf(fn)[x.v]) ELSE Category(TableOf(fn)[x.v])

RemapsByTable ==
  /\ calc.out.kind = "grid"
  /\ calc.out.grid.Shape = calc.in[1].Shape
  /\ \A c \in 1..Len(calc.in[1].Elements) :
        calc.out.grid.Elements[c] = Entry(calc.fn, calc.in[1].Elements[c])

\* C9 as claimed: for every input grid of valid codes each remapper returns
\* a grid of the same shape holding table[code - 1] at every cell.
C9_RemapAnyShape ==
  (calc.fn \in LandUseFns /\ AllValid(calc.fn, calc.in[1])) => RemapsByTable

\* C9: for every input grid of valid codes, two-dimensional in the case of
\* SeinfeldLandUse and WeselyLandUse, the remapper returns a grid of the same
\* shape holding table[code - 1] at every cell.
C9_RemapByTable ==
  (/\ calc.fn \in LandUseFns
   /\ AllValid(calc.fn, calc.in[1])
   /\ (calc.fn = "cmaqZ0" \/ Len(calc.in[1].Shape) = 2)) => RemapsByTable

\* The last code of the table beside the first, remapped.
C9_Witness ==
  /\ calc.fn = "cmaqWeselyLandUse"
  /\ calc.in[1] = [Shape |-> <<1, 2>>, Elements |-> <<Num(40), Num(1)>>]
  /\ calc.out = Ok([Shape |-> <<1, 2>>,
                    Elements |-> <<Category("Wetland"), Category("Coniferous")>>])

\* C10 as claimed: every pull calls the upstream producers in the order of the
\* combinator's parameters.
C10_DeclaredOrder ==
  last.chain # 0 => IsPrefix(TraceIds, Leaves(chains[last.chain].f))

\* C10: every pull calls the upstream producers in one fixed order: the order
\* of the parameters for cmaqTemperatureConvert, Height and cmaqRadiationDown,
\* and pbFunc before pFunc for cmaqPressureConvert(pFunc, pbFunc).
C10_FixedOrder ==
  last.chain # 0 => IsPrefix(TraceIds, PullOrder(chains[last.chain].f))

\* A second pull of T() that called T, PB and P in this order.
C10_Witness ==
  /\ last.acc = "T"
  /\ chains[last.chain].calls = 2
  /\ Len(last.tr) = 3
  /\ last.tr[1].var = "T" /\ last.tr[2].var = "PB" /\ last.tr[3].var = "P"

\* C11: no derived closure modifies a grid it received from an upstream
\* producer: after a successful pull every upstream grid holds the values it
\* was returned with, the result is an array allocated in the pull, and the
\* pressure and radiation closures made it as a copy of their first-pulled
\* input, into which they added the other.
C11_UpstreamUnmodified ==
  calc.out.kind = "grid" =>
    /\ \A a \in 1..Len(calc.in) : calc.mem[a] = calc.in[a]
    /\ calc.ref > Len(calc.in)
    /\ calc.mem[calc.ref] = calc.out.grid
    /\ (calc.fn \in {"cmaqPressureConvert", "cmaqRadiationDown"} =>
          /\ calc.copyOf = 1
          /\ calc.out = AddDense(calc.in[1], calc.in[2]))

\* A pressure pull whose sum differs from both inputs: PB = [1, 0] and
\* P = [1, 1] give [2, 1] in a third array.
C11_Witness ==
  /\ calc.fn = "cmaqPressureConvert"
  /\ calc.in = <<[Shape |-> <<2>>, Elements |-> <<Num(1), Num(0)>>],
                 [Shape |-> <<2>>, Elements |-> <<Num(1), Num(1)>>]>>
  /\ calc.ref = 3
  /\ calc.mem[3] = [Shape |-> <<2>>, Elements |-> <<Num(2), Num(1)>>]
  /\ calc.mem[1] = calc.in[1]

====
